---- MODULE Spec2Model ----
(***************************************************************************)
(* A model of the event driven FSM protocol of command_and_event_traits.rs *)
(* (Transition, Lens, Event, Command and the Fsm trait with for_command,   *)
(* for_event, on_transition and step), together with the two-state toggle  *)
(* of tests::test_step that exercises it.                                  *)
(*                                                                         *)
(* step is modelled at the grain of its statements: one action per call    *)
(* it makes (for_command, for_event, on_transition) and one for its        *)
(* return, so that the order and number of the calls are observable.       *)
(***************************************************************************)
EXTENDS Integers, Sequences, FiniteSets, TLC

(***************************************************************************)
(* Bounds of the model.                                                    *)
(***************************************************************************)
\* the number of calls of step a behaviour makes
MaxSteps == 2

(***************************************************************************)
(* u32 counters.  The counters of EffectHandlers are u32; a u32 is kept as *)
(* two 16-bit limbs, hi * 2^16 + lo, so that u32::MAX and the overflow of  *)
(* `+= 1` are representable with the model checker's 32-bit integers.      *)
(***************************************************************************)
LimbMax == 65535

U32Zero == [hi |-> 0, lo |-> 0]

U32Max == [hi |-> LimbMax, lo |-> LimbMax]

\* x + 1 modulo 2^32
WrappingInc(x) ==
    IF x.lo < LimbMax THEN [x EXCEPT !.lo = @ + 1]
    ELSE IF x.hi < LimbMax THEN [hi |-> x.hi + 1, lo |-> 0]
    ELSE U32Zero

\* y is the integer x + 1 (false of every y when x is u32::MAX)
IsSucc(x, y) == x # U32Max /\ y = WrappingInc(x)

(***************************************************************************)
(* Values.                                                                 *)
(***************************************************************************)
\* enum State of the toggle
State == {"State::Started", "State::Stopped"}

\* Option<T>
None == <<>>

Some(x) == <<x>>

\* enum Transition<S>
TransitionNext(s) == [tag |-> "Next", state |-> s]

TransitionSame == [tag |-> "Same"]

Transition == {TransitionSame} \cup {TransitionNext(s) : s \in State}

\* enum Event of the toggle
EventStarted == [variant |-> "Event::Started"]

EventStopped == [variant |-> "Event::Stopped"]

ToggleEvent == {EventStarted, EventStopped}

\* struct Started {} and struct Stopped {} of test_step_alt, where each event
\* is a type of its own
AltStarted == [struct |-> "Started"]

AltStopped == [struct |-> "Stopped"]

AltEvent == {AltStarted, AltStopped}

\* Other implementations of the Event trait: the trait constrains fire only by
\* its signature.  [goto |-> s] is an event whose fire yields Next(s) in
\* every state.
OtherEvent == {[goto |-> s] : s \in State}

Event == ToggleEvent \cup AltEvent \cup OtherEvent

\* enum Command of the toggle
CommandStart == [variant |-> "Command::Start"]

CommandStop == [variant |-> "Command::Stop"]

ToggleCommand == {CommandStart, CommandStop}

\* struct Start {} and struct Stop {} of test_step_alt, where each command is
\* a type of its own
AltStart == [struct |-> "Start"]

AltStop == [struct |-> "Stop"]

AltCommand == {AltStart, AltStop}

\* the pub methods of EffectHandlers a command may call
Effect == {"none", "start_something", "stop_something"}

\* Other implementations of the Command trait: [emit |-> o, effect |-> f] is a
\* command whose execute performs f on the handler and returns o, whatever
\* the state.
OtherCommand ==
    [emit : {None} \cup {Some(e) : e \in ToggleEvent \cup OtherEvent},
     effect : Effect]

Command == ToggleCommand \cup AltCommand \cup OtherCommand

\* the implementations of the Fsm trait: MyFsm overrides on_transition,
\* DefaultFsm keeps the provided one
FsmImpl == {"MyFsm", "DefaultFsm"}

\* the values a handler's counters hold when the caller constructs it
InitCount == {U32Zero, U32Max}

VARIABLES
    fsm,              \* the Fsm implementation step is called on
    overflow_checks,  \* the build: TRUE when `+` panics on overflow (debug)
    state,            \* the caller's state, lent to step as `state: &S`
    handler,          \* the caller's EffectHandlers, lent as `handler: &mut H`
    pc,               \* where the running step is: idle, for_command,
                      \* for_event, on_transition, return, panicked
    command,          \* step's `command` argument
    entry,            \* state and handler as they were when step was called
    result,           \* step's local `result`
    trans,            \* step's local `trans`
    hook_calls,       \* invocations of on_transition by the running step
    hook_args,        \* the arguments of the running step's invocation of
                      \* on_transition: old_s, new_s and the handler as passed
    phases,           \* the calls the running step has made, in order
    ret,              \* the pair the last step returned
    steps,            \* calls of step so far
    journal,          \* the events the steps returned, with their transitions
    rstate,           \* the state reconstituted by replaying the journal
    rpos,             \* events of the journal replayed so far
    rtrans,           \* the transition for_event gave the last replayed event
    pin               \* one earlier step, kept to compare later steps with

vars ==
    <<fsm, overflow_checks, state, handler, pc, command, entry, result, trans,
      hook_calls, hook_args, phases, ret, steps, journal, rstate, rpos, rtrans,
      pin>>

(***************************************************************************)
(* EffectHandlers.  A method either returns with the handler it leaves, or *)
(* panics.                                                                 *)
(***************************************************************************)
Returned(h) == [ok |-> TRUE, h |-> h]

Panicked(h) == [ok |-> FALSE, h |-> h]

\* `self.field += 1` on a u32: at u32::MAX it panics where overflow is
\* checked and wraps to 0 where it is not
AddAssignOne(h, field) ==
    IF h[field] = U32Max /\ overflow_checks
    THEN Panicked(h)
    ELSE Returned([h EXCEPT ![field] = WrappingInc(@)])

\* start_something counting on the wrong field
StartSomethingWrongField(h) == AddAssignOne(h, "stopped")

start_something(h) == AddAssignOne(h, "started")

stop_something(h) == AddAssignOne(h, "stopped")

transitioned_started_to_stopped(h) ==
    AddAssignOne(h, "transitioned_started_to_stopped")

transitioned_stopped_to_started(h) ==
    AddAssignOne(h, "transitioned_stopped_to_started")

(***************************************************************************)
(* Lens: the blanket implementation, which views the whole of Self.        *)
(***************************************************************************)
extract(self) == self

\* inject giving back the state it was called on
InjectKeepsSelf(self, part) == self

inject(self, part) == part

(***************************************************************************)
(* Event::fire and Command::execute.                                       *)
(***************************************************************************)
\* a fire that moves to the state the event names also when already there
ToggleFireAlwaysNext(self, s) ==
    IF self = EventStarted THEN TransitionNext("State::Started")
    ELSE TransitionNext("State::Stopped")

\* a fire whose Started arm does not look at the state
ToggleFireStartedUnguarded(self, s) ==
    IF self = EventStarted THEN TransitionNext("State::Started")
    ELSE IF s = "State::Started" THEN TransitionNext("State::Stopped")
    ELSE TransitionSame

\* impl Event<State> for Event
ToggleFire(self, s) ==
    CASE s = "State::Started" /\ self = EventStarted -> TransitionSame
      [] s = "State::Started" /\ self = EventStopped ->
            TransitionNext("State::Stopped")
      [] s = "State::Stopped" /\ self = EventStarted ->
            TransitionNext("State::Started")
      [] s = "State::Stopped" /\ self = EventStopped -> TransitionSame

\* impl Event<State> for Started
StartedFire(s) ==
    IF s = "State::Stopped" THEN TransitionNext("State::Started")
    ELSE TransitionSame

\* impl Event<State> for Stopped
StoppedFire(s) ==
    IF s = "State::Started" THEN TransitionNext("State::Stopped")
    ELSE TransitionSame

\* a fire that consults ambient state (how many steps were made) as well as
\* its arguments
FireAmbient(self, s) ==
    IF self \in ToggleEvent
    THEN IF steps > 1 THEN TransitionSame ELSE ToggleFire(self, s)
    ELSE IF self = AltStarted THEN StartedFire(s)
    ELSE IF self = AltStopped THEN StoppedFire(s)
    ELSE TransitionNext(IF steps > 1 THEN s ELSE self.goto)

fire(self, s) ==
    IF self \in ToggleEvent THEN ToggleFire(self, s)
    ELSE IF self = AltStarted THEN StartedFire(s)
    ELSE IF self = AltStopped THEN StoppedFire(s)
    ELSE TransitionNext(self.goto)

\* what execute gives back: the event, and the handler as it leaves it;
\* ok is FALSE when a handler method panicked
Executed(o, r) == [event |-> IF r.ok THEN o ELSE None, ok |-> r.ok, h |-> r.h]

\* execute performing the effect of a command it then rejects
ToggleExecuteEffectOnReject(self, s, se) ==
    CASE s = "State::Started" /\ self = CommandStart ->
            Executed(None, start_something(se))
      [] s = "State::Started" /\ self = CommandStop ->
            Executed(Some(EventStopped), stop_something(se))
      [] s = "State::Stopped" /\ self = CommandStart ->
            Executed(Some(EventStarted), start_something(se))
      [] s = "State::Stopped" /\ self = CommandStop ->
            Executed(None, stop_something(se))

\* impl Command<State, EffectHandlers> for Command
ToggleExecute(self, s, se) ==
    CASE s = "State::Started" /\ self = CommandStart ->
            Executed(None, Returned(se))
      [] s = "State::Started" /\ self = CommandStop ->
            Executed(Some(EventStopped), stop_something(se))
      [] s = "State::Stopped" /\ self = CommandStart ->
            Executed(Some(EventStarted), start_something(se))
      [] s = "State::Stopped" /\ self = CommandStop ->
            Executed(None, Returned(se))

\* execute of Start performing its effect in every state
StartExecuteEffectOnReject(s, se) ==
    IF s = "State::Stopped" THEN Executed(Some(AltStarted), start_something(se))
    ELSE Executed(None, start_something(se))

\* impl Command<State, EffectHandlers> for Start
StartExecute(s, se) ==
    IF s = "State::Stopped" THEN Executed(Some(AltStarted), start_something(se))
    ELSE Executed(None, Returned(se))

\* impl Command<State, EffectHandlers> for Stop
StopExecute(s, se) ==
    IF s = "State::Started" THEN Executed(Some(AltStopped), stop_something(se))
    ELSE Executed(None, Returned(se))

Perform(f, h) ==
    CASE f = "none" -> Returned(h)
      [] f = "start_something" -> start_something(h)
      [] f = "stop_something" -> stop_something(h)

execute(self, s, h) ==
    IF self \in ToggleCommand THEN ToggleExecute(self, s, h)
    ELSE IF self = AltStart THEN StartExecute(s, h)
    ELSE IF self = AltStop THEN StopExecute(s, h)
    ELSE Executed(self.emit, Perform(self.effect, h))

(***************************************************************************)
(* The provided methods of trait Fsm.                                      *)
(***************************************************************************)
for_command(s, c, h) == execute(c, extract(s), h)

for_event(s, e) ==
    LET t == fire(e, extract(s))
    IN  IF t.tag = "Next" THEN TransitionNext(inject(s, t.state))
        ELSE TransitionSame

\* a provided on_transition that counts the transition on the handler
DefaultOnTransitionCounts(old_s, new_s, h) ==
    transitioned_stopped_to_started(h)

\* fn on_transition(_old_s, _new_s, _h) {}
DefaultOnTransition(old_s, new_s, h) == Returned(h)

\* a hook whose two counting arms are exchanged
MyFsmOnTransitionSwapped(old_s, new_s, se) ==
    CASE old_s = "State::Started" /\ new_s = "State::Stopped" ->
            transitioned_stopped_to_started(se)
      [] old_s = "State::Stopped" /\ new_s = "State::Started" ->
            transitioned_started_to_stopped(se)
      [] OTHER -> Panicked(se)

\* MyFsm's on_transition
MyFsmOnTransition(old_s, new_s, se) ==
    CASE old_s = "State::Started" /\ new_s = "State::Stopped" ->
            transitioned_started_to_stopped(se)
      [] old_s = "State::Stopped" /\ new_s = "State::Started" ->
            transitioned_stopped_to_started(se)
      [] OTHER -> Panicked(se)

on_transition(f, old_s, new_s, h) ==
    IF f = "MyFsm" THEN MyFsmOnTransition(old_s, new_s, h)
    ELSE DefaultOnTransition(old_s, new_s, h)

(***************************************************************************)
(* step, statement by statement.                                           *)
(***************************************************************************)
\* a local of step that holds no value yet
Unset == [tag |-> "Unset"]

\* the hook called as soon as an event is there, before it is fired
AfterForCommandHookFirst(r) == IF r # None THEN "on_transition" ELSE "return"

\* `if let Some(event) = &result { .. } else { Transition::Same }`
AfterForCommand(r) == IF r # None THEN "for_event" ELSE "return"

\* the hook never called
AfterForEventNoHook(t) == "return"

\* the hook called whatever the transition
AfterForEventHookAlways(t) == "on_transition"

\* `if let Transition::Next(new_s) = &trans { .. }`
AfterForEvent(t) == IF t.tag = "Next" THEN "on_transition" ELSE "return"

\* the caller takes the transition step returned: it replaces its state on
\* Next and keeps it on Same
Adopt(s, t) == IF t.tag = "Next" THEN t.state ELSE s

\* what a completed step is remembered by: its arguments and its outcome
Outcome ==
    [at |-> steps, state |-> entry.state, command |-> command,
     handler |-> entry.handler, result |-> result, trans |-> trans,
     handler_after |-> handler]

Init ==
    /\ fsm \in FsmImpl
    /\ overflow_checks \in BOOLEAN
    /\ state \in State
    /\ handler \in [started : InitCount, stopped : InitCount,
                     transitioned_stopped_to_started : InitCount,
                     transitioned_started_to_stopped : InitCount]
    /\ pc = "idle"
    /\ command = None
    /\ entry = [state |-> state, handler |-> handler]
    /\ result = None
    /\ trans = Unset
    /\ hook_calls = 0
    /\ hook_args = <<>>
    /\ phases = <<>>
    /\ ret = <<>>
    /\ steps = 0
    /\ journal = <<>>
    /\ rstate = state
    /\ rpos = 0
    /\ rtrans = Unset
    /\ pin = None

\* the caller calls Self::step(&state, &c, &mut handler)
StepCall(c) ==
    /\ pc = "idle"
    /\ steps < MaxSteps
    /\ pc' = "for_command"
    /\ steps' = steps + 1
    /\ command' = Some(c)
    /\ entry' = [state |-> state, handler |-> handler]
    /\ result' = None
    /\ trans' = Unset
    /\ hook_calls' = 0
    /\ hook_args' = <<>>
    /\ phases' = <<>>
    /\ ret' = <<>>
    /\ UNCHANGED <<fsm, overflow_checks, state, handler, journal, rstate, rpos,
                   rtrans, pin>>

\* StepForCommand with the hook reached whether or not an event came back
StepForCommandHookAlways ==
    /\ pc = "for_command"
    /\ LET x == for_command(state, command[1], handler)
       IN  /\ handler' = x.h
           /\ result' = x.event
           /\ pc' = IF ~x.ok THEN "panicked"
                    ELSE IF x.event # None THEN "for_event" ELSE "on_transition"
           /\ trans' = IF x.ok /\ x.event = None THEN TransitionSame ELSE trans
    /\ phases' = Append(phases, "for_command")
    /\ UNCHANGED <<fsm, overflow_checks, state, command, entry, hook_calls,
                   hook_args, ret, steps, journal, rstate, rpos, rtrans, pin>>

\* let result = Self::for_command(state, command, handler);
StepForCommand ==
    /\ pc = "for_command"
    /\ LET x == for_command(state, command[1], handler)
       IN  /\ handler' = x.h
           /\ result' = x.event
           /\ pc' = IF x.ok THEN AfterForCommand(x.event) ELSE "panicked"
           /\ trans' = IF x.ok /\ AfterForCommand(x.event) = "return"
                       THEN TransitionSame ELSE trans
    /\ phases' = Append(phases, "for_command")
    /\ UNCHANGED <<fsm, overflow_checks, state, command, entry, hook_calls,
                   hook_args, ret, steps, journal, rstate, rpos, rtrans, pin>>

\* a step that has the event but does not take the transition firing gives
StepForEventDropsTransition ==
    /\ pc = "for_event"
    /\ trans' = TransitionSame
    /\ pc' = "return"
    /\ phases' = Append(phases, "for_event")
    /\ UNCHANGED <<fsm, overflow_checks, state, handler, command, entry, result,
                   hook_calls, hook_args, ret, steps, journal, rstate, rpos,
                   rtrans, pin>>

\* a for_event that runs the hook itself, on the handler, when it gets a Next
StepForEventCallsHook ==
    /\ pc = "for_event"
    /\ LET t == for_event(state, result[1])
           r == on_transition(fsm, state, Adopt(state, t), handler)
       IN  /\ trans' = t
           /\ pc' = AfterForEvent(t)
           /\ handler' = IF t.tag = "Next" THEN r.h ELSE handler
           /\ hook_calls' = IF t.tag = "Next" THEN hook_calls + 1 ELSE hook_calls
           /\ hook_args' = IF t.tag = "Next" THEN <<state, t.state, handler>>
                           ELSE hook_args
    /\ phases' = Append(phases, "for_event")
    /\ UNCHANGED <<fsm, overflow_checks, state, command, entry, result, ret,
                   steps, journal, rstate, rpos, rtrans, pin>>

\* a step that writes the new state over the state it was lent
StepForEventInPlace ==
    /\ pc = "for_event"
    /\ LET t == for_event(state, result[1])
       IN  /\ trans' = t
           /\ pc' = AfterForEvent(t)
           /\ state' = Adopt(state, t)
    /\ phases' = Append(phases, "for_event")
    /\ UNCHANGED <<fsm, overflow_checks, handler, command, entry, result,
                   hook_calls, hook_args, ret, steps, journal, rstate, rpos,
                   rtrans, pin>>

\* let trans = Self::for_event(state, event);
StepForEvent ==
    /\ pc = "for_event"
    /\ LET t == for_event(state, result[1])
       IN  /\ trans' = t
           /\ pc' = AfterForEvent(t)
    /\ phases' = Append(phases, "for_event")
    /\ UNCHANGED <<fsm, overflow_checks, state, handler, command, entry, result,
                   hook_calls, hook_args, ret, steps, journal, rstate, rpos,
                   rtrans, pin>>

\* a step that catches a panic of the hook and goes on to its return
StepOnTransitionCatches ==
    /\ pc = "on_transition"
    /\ LET new_s == IF trans.tag = "Next" THEN trans.state ELSE state
           r == on_transition(fsm, state, new_s, handler)
       IN  /\ handler' = r.h
           /\ hook_args' = <<state, new_s, handler>>
    /\ pc' = "return"
    /\ hook_calls' = hook_calls + 1
    /\ phases' = Append(phases, "on_transition")
    /\ UNCHANGED <<fsm, overflow_checks, state, command, entry, result, trans,
                   ret, steps, journal, rstate, rpos, rtrans, pin>>

\* Self::on_transition(state, new_s, handler);
\* StepOnTransition putting the handler back as it was at the call when the
\* hook panics
StepOnTransitionRollsBack ==
    /\ pc = "on_transition"
    /\ LET new_s == IF trans.tag = "Next" THEN trans.state ELSE state
           r == on_transition(fsm, state, new_s, handler)
       IN  /\ handler' = IF r.ok THEN r.h ELSE entry.handler
           /\ hook_args' = <<state, new_s, handler>>
           /\ pc' = IF r.ok THEN "return" ELSE "panicked"
    /\ hook_calls' = hook_calls + 1
    /\ phases' = Append(phases, "on_transition")
    /\ UNCHANGED <<fsm, overflow_checks, state, command, entry, result, trans,
                   ret, steps, journal, rstate, rpos, rtrans, pin>>

StepOnTransition ==
    /\ pc = "on_transition"
    /\ LET new_s == IF trans.tag = "Next" THEN trans.state ELSE state
           r == on_transition(fsm, state, new_s, handler)
       IN  /\ handler' = r.h
           /\ hook_args' = <<state, new_s, handler>>
           /\ pc' = IF r.ok THEN "return" ELSE "panicked"
    /\ hook_calls' = hook_calls + 1
    /\ phases' = Append(phases, "on_transition")
    /\ UNCHANGED <<fsm, overflow_checks, state, command, entry, result, trans,
                   ret, steps, journal, rstate, rpos, rtrans, pin>>

\* (result, trans): step returns, its locals and borrows end, and the caller
\* takes the pair
StepReturn ==
    /\ pc = "return"
    /\ pc' = "idle"
    /\ ret' = <<result, trans>>
    /\ state' = Adopt(state, trans)
    /\ journal' = IF result # None
                  THEN Append(journal, [event |-> result[1], trans |-> trans,
                                        before |-> state, after |-> state'])
                  ELSE journal
    /\ command' = None
    /\ entry' = [state |-> state', handler |-> handler]
    /\ result' = None
    /\ trans' = Unset
    /\ hook_calls' = 0
    /\ hook_args' = <<>>
    /\ phases' = <<>>
    /\ UNCHANGED <<fsm, overflow_checks, handler, steps, rstate, rpos, rtrans,
                   pin>>

\* the caller keeps what it gave step and what came back, to compare a later
\* step with
Remember ==
    /\ pc = "return"
    /\ pin = None
    /\ pin' = Some(Outcome)
    /\ UNCHANGED <<fsm, overflow_checks, state, handler, pc, command, entry,
                   result, trans, hook_calls, hook_args, phases, ret, steps,
                   journal, rstate, rpos, rtrans>>

\* the caller replays the next event of the journal: Self::for_event(&rstate,
\* &event), replacing rstate on Next
ReplayEvent ==
    /\ pc = "idle"
    /\ rpos < Len(journal)
    /\ LET t == for_event(rstate, journal[rpos + 1].event)
       IN  /\ rtrans' = t
           /\ rstate' = Adopt(rstate, t)
    /\ rpos' = rpos + 1
    /\ UNCHANGED <<fsm, overflow_checks, state, handler, pc, command, entry,
                   result, trans, hook_calls, hook_args, phases, ret, steps,
                   journal, pin>>

Step ==
    \/ \E c \in Command : StepCall(c)
    \/ StepForCommand
    \/ StepForEvent
    \/ StepOnTransition
    \/ StepReturn

\* a caller that steps, and replays the events it got
Next == Step \/ ReplayEvent

Spec == Init /\ [][Next]_vars

\* the caller sets up the arguments of the remembered step again: the same
\* state and a handler equal to the one it passed then
Rerun ==
    /\ pc = "idle"
    /\ pin # None
    /\ state' = pin[1].state
    /\ handler' = pin[1].handler
    /\ entry' = [state |-> state', handler |-> handler']
    /\ UNCHANGED <<fsm, overflow_checks, pc, command, result, trans, hook_calls,
                   hook_args, phases, ret, steps, journal, rstate, rpos, rtrans,
                   pin>>

\* a caller that steps, remembers one step and runs steps from the same
\* arguments again
NextRuns == Step \/ Remember \/ Rerun

SpecRuns == Init /\ [][NextRuns]_vars

TypeOK ==
    /\ pc \in {"idle", "for_command", "for_event", "on_transition", "return",
               "panicked"}
    /\ state \in State
    /\ steps \in 0..MaxSteps

(***************************************************************************)
(* Properties of step.                                                     *)
(***************************************************************************)
\* the running step has passed for_command, which returned (did not panic)
CommandReturned == phases # <<>> /\ pc # "panicked"

\* C1: whenever for_command returns None, step goes straight to its return
\* with the transition Same, on_transition is not invoked during that step, and
\* the pair the caller gets is exactly (None, Same).
C1_NoEventImpliesSame ==
    /\ [](CommandReturned /\ result = None
            => /\ pc = "return"
               /\ trans = TransitionSame
               /\ hook_calls = 0
               /\ phases = <<"for_command">>)
    /\ [][pc = "return" /\ result = None /\ pc' = "idle"
            => ret' = <<None, TransitionSame>>]_vars

C1_Witness ==
    /\ pc = "return"
    /\ result = None
    /\ handler # entry.handler

\* C2: whenever the lifted transition is Next(new_state), on_transition is
\* invoked exactly once with (old state, new state, the handler as for_command
\* left it), after for_event computed the transition and before step returns;
\* it is invoked at most once in any step.
C2_NextImpliesHook ==
    /\ hook_calls \in {0, 1}
    /\ pc \in {"return", "panicked"} /\ trans.tag = "Next"
          => /\ hook_calls = 1
             /\ phases = <<"for_command", "for_event", "on_transition">>
             /\ hook_args[1] = entry.state
             /\ hook_args[2] = trans.state
             /\ hook_args[3] =
                    for_command(entry.state, command[1], entry.handler).h
    /\ pc = "on_transition" => trans.tag = "Next" /\ hook_calls = 0

C2_Witness ==
    /\ pc = "return"
    /\ trans.tag = "Next"
    /\ hook_calls = 1
    /\ hook_args[3] # entry.handler

\* C3: when the command produces an event and firing it yields Same,
\* on_transition is not invoked and step returns (Some(event), Same).
C3_EventButSame ==
    /\ [](pc = "return" /\ result # None /\ trans = TransitionSame
            => /\ hook_calls = 0
               /\ phases = <<"for_command", "for_event">>)
    /\ [][pc = "return" /\ pc' = "idle" /\ result # None /\ trans = TransitionSame
            => /\ ret' = <<result, TransitionSame>>
               /\ state' = state]_vars

C3_Witness ==
    /\ pc = "return"
    /\ result # None
    /\ trans = TransitionSame

\* the order of the calls of one step
PhaseOrder == <<"for_command", "for_event", "on_transition">>

\* C4: within one step the calls occur in the order for_command, for_event,
\* on_transition, each at most once and each after its predecessor has
\* returned; a step is entered only when no step is running, and the caller
\* does nothing of its own while a step runs.
C4_PhaseOrder ==
    /\ [](/\ Len(phases) <= 3
          /\ phases = SubSeq(PhaseOrder, 1, Len(phases))
          /\ pc = "idle" => phases = <<>>
          /\ pc = "for_command" => phases = <<>>
          /\ pc = "for_event" => phases = <<"for_command">>
          /\ pc = "on_transition" => phases = <<"for_command", "for_event">>)
    /\ [][steps' # steps => pc = "idle" /\ pc' = "for_command"]_vars
    /\ [][rpos' # rpos \/ state' # state => pc' = "idle"]_vars
    /\ [][pc # "idle" /\ pc' # "idle" => command' = command /\ entry' = entry]_vars

C4_Witness ==
    /\ pc = "return"
    /\ phases = PhaseOrder
    /\ steps = 2

(***************************************************************************)
(* The two-state toggle: MyFsm stepped with Command::Start and             *)
(* Command::Stop (test_step), or with Start {} and Stop {} (test_step_alt).*)
(***************************************************************************)
\* the two forms of the toggle's commands, with the event each emits
Starts == {[command |-> CommandStart, event |-> EventStarted],
           [command |-> AltStart, event |-> AltStarted]}

Stops == {[command |-> CommandStop, event |-> EventStopped],
          [command |-> AltStop, event |-> AltStopped]}

\* the running step is step(s, c, ..) of the toggle and is past for_command
ToggleStep(s, c) ==
    /\ fsm = "MyFsm"
    /\ command = Some(c)
    /\ entry.state = s
    /\ phases # <<>>

\* the running step has returned e and t and left the handler with exactly
\* the counters of `bumped` one higher than they were when it was called
AcceptedWith(e, t, bumped) ==
    /\ pc = "return"
    /\ result = Some(e)
    /\ trans = t
    /\ \A f \in DOMAIN handler :
          IF f \in bumped THEN IsSucc(entry.handler[f], handler[f])
          ELSE handler[f] = entry.handler[f]

StartBumps == {"started", "transitioned_stopped_to_started"}

StopBumps == {"stopped", "transitioned_started_to_stopped"}

\* no counter of `bumped` was at u32::MAX when the running step was called
BelowMax(bumped) == \A f \in bumped : entry.handler[f] # U32Max

\* C5 as stated: step(Stopped, Start) returns (Some(Started), Next(Started))
\* and adds one to exactly the start count and the stopped-to-started counter;
\* step(Started, Stop) returns (Some(Stopped), Next(Stopped)) and adds one to
\* exactly the stop count and the started-to-stopped counter; whatever the
\* counters were before the step.
C5_AcceptedAnyCounters ==
    /\ \A x \in Starts :
          ToggleStep("State::Stopped", x.command)
          /\ pc \in {"return", "panicked"}
          => AcceptedWith(x.event, TransitionNext("State::Started"), StartBumps)
    /\ \A x \in Stops :
          ToggleStep("State::Started", x.command)
          /\ pc \in {"return", "panicked"}
          => AcceptedWith(x.event, TransitionNext("State::Stopped"), StopBumps)

\* C5, amended: the same, for every value of the counters before the step at
\* which the two counters the step increments are below u32::MAX; then the
\* step does not panic either.
C5_Accepted ==
    /\ \A x \in Starts :
          ToggleStep("State::Stopped", x.command)
          /\ pc \in {"return", "panicked"}
          /\ BelowMax(StartBumps)
          => AcceptedWith(x.event, TransitionNext("State::Started"), StartBumps)
    /\ \A x \in Stops :
          ToggleStep("State::Started", x.command)
          /\ pc \in {"return", "panicked"}
          /\ BelowMax(StopBumps)
          => AcceptedWith(x.event, TransitionNext("State::Stopped"), StopBumps)

C5_Witness ==
    /\ ToggleStep("State::Started", CommandStop)
    /\ pc = "return"
    /\ BelowMax(StopBumps)
    /\ entry.handler.started = U32Max
    /\ steps = 2

\* C6: step(Started, Start) and step(Stopped, Stop) return (None, Same), do
\* not panic and leave all four counters of the handler as they were, whatever
\* they were.
C6_Rejected ==
    \A c \in ToggleCommand \cup AltCommand, s \in State :
        (/\ ToggleStep(s, c)
         /\ \/ s = "State::Started" /\ c \in {CommandStart, AltStart}
            \/ s = "State::Stopped" /\ c \in {CommandStop, AltStop})
        => /\ pc = "return"
           /\ result = None
           /\ trans = TransitionSame
           /\ hook_calls = 0
           /\ handler = entry.handler

C6_Witness ==
    /\ ToggleStep("State::Stopped", AltStop)
    /\ pc = "return"
    /\ handler.stopped = U32Max
    /\ handler.started = U32Zero

(***************************************************************************)
(* The identity view.                                                      *)
(***************************************************************************)
\* C7: the blanket lens of a state type onto itself is lawful: for every s and
\* t, extract(inject(s, t)) = t and inject(s, extract(s)) = s; in particular
\* the state a step lifts a Next to shows, through extract, the part fire gave.
C7_LensLaw ==
    /\ \A s \in State, t \in State :
          /\ extract(inject(s, t)) = t
          /\ inject(s, extract(s)) = s
    /\ inject(state, extract(state)) = state
    /\ pc = "on_transition"
          => extract(trans.state) = fire(result[1], extract(state)).state

C7_Witness ==
    /\ pc = "on_transition"
    /\ trans.state # state
    /\ extract(trans.state) = fire(result[1], extract(state)).state

\* step without the lens: execute on the whole state, fire on the whole state,
\* the hook on a Next.  calls lists the hook's (old_s, new_s) invocations.
DirectStep(f, s, c, h) ==
    LET x == execute(c, s, h)
        t == fire(x.event[1], s)
        r == on_transition(f, s, t.state, x.h)
    IN  IF ~x.ok
        THEN [ok |-> FALSE, result |-> None, trans |-> Unset, calls |-> <<>>,
              handler |-> x.h]
        ELSE IF x.event = None
        THEN [ok |-> TRUE, result |-> None, trans |-> TransitionSame,
              calls |-> <<>>, handler |-> x.h]
        ELSE IF t.tag # "Next"
        THEN [ok |-> TRUE, result |-> x.event, trans |-> TransitionSame,
              calls |-> <<>>, handler |-> x.h]
        ELSE [ok |-> r.ok, result |-> x.event, trans |-> t,
              calls |-> << <<s, t.state>> >>, handler |-> r.h]

\* the hook invocations of the running step, as (old_s, new_s) pairs
HookCalls == IF hook_calls = 0 THEN <<>> ELSE << <<hook_args[1], hook_args[2]>> >>

\* C8: with the identity view, step gives the same returned event, the same
\* transition, the same hook invocations and the same final handler as the
\* lens-free computation on the whole state, and panics exactly when it does.
C8_IdentityViewTransparent ==
    pc \in {"return", "panicked"}
      => LET d == DirectStep(fsm, entry.state, command[1], entry.handler)
         IN  /\ d.ok = (pc = "return")
             /\ d.result = result
             /\ d.trans = trans
             /\ d.calls = HookCalls
             /\ d.handler = handler

C8_Witness ==
    /\ pc = "return"
    /\ trans.tag = "Next"
    /\ trans.state # entry.state
    /\ hook_calls = 1
    /\ handler # entry.handler

(***************************************************************************)
(* Determinism.                                                            *)
(***************************************************************************)
\* the running step was called with the arguments of the remembered step p
SameArguments(p) ==
    /\ p.state = entry.state
    /\ p.command = command
    /\ p.handler = entry.handler

C9_WitnessForEvent ==
    /\ pin # None
    /\ pc = "return"
    /\ pin[1].at < steps
    /\ pin[1].state = entry.state
    /\ pin[1].result = result
    /\ pin[1].command # command
    /\ trans.tag = "Next"

(***************************************************************************)
(* Replay.                                                                 *)
(***************************************************************************)
\* C10: folding for_event over the events the steps returned, from the state
\* the steps began in and replacing the state only on Next, gives for each
\* event the transition its step returned, passes through the states the
\* caller passed through and, once every event is replayed, ends in the
\* caller's state; replaying changes neither the handler nor the caller's
\* state and invokes no hook.
C10_ReplayReconstitutes ==
    /\ [](/\ \A i \in 1..(Len(journal) - 1) :
                journal[i + 1].before = journal[i].after
          /\ journal = <<>> => rstate = state
          /\ journal # <<>> /\ rpos = 0 => rstate = journal[1].before
          /\ rpos > 0 => /\ rstate = journal[rpos].after
                          /\ rtrans = journal[rpos].trans
          /\ journal # <<>> /\ pc = "idle" => journal[Len(journal)].after = state
          /\ rpos = Len(journal) /\ pc = "idle" => rstate = state)
    /\ [][rpos' # rpos
            => /\ handler' = handler
               /\ state' = state
               /\ hook_calls' = hook_calls
               /\ phases' = phases]_vars

C10_Witness ==
    /\ pc = "idle"
    /\ Len(journal) = 2
    /\ rpos = 2
    /\ journal[1].trans.tag = "Next"
    /\ journal[1].after # journal[1].before
    /\ journal[2].trans.tag = "Next"
    /\ rstate = state

(***************************************************************************)
(* Faults.                                                                 *)
(***************************************************************************)
\* the hook of the running step was invoked and panicked
HookFaulted ==
    /\ hook_calls > 0
    /\ ~on_transition(fsm, hook_args[1], hook_args[2], hook_args[3]).ok

\* a handler method called by the command of the running step panicked
CommandFaulted ==
    /\ phases # <<>>
    /\ ~for_command(entry.state, command[1], entry.handler).ok

\* C11: a panic of the transition hook, or of a handler method the command
\* calls, is not caught by step: the step ends there, panicked, no later call
\* of the step is made, it hands no (event, transition) pair to the caller and
\* nothing runs after it.
C11_FaultNotCaught ==
    /\ [](HookFaulted
            => /\ pc = "panicked"
               /\ ret = <<>>
               /\ phases = <<"for_command", "for_event", "on_transition">>)
    /\ [](CommandFaulted
            => /\ pc = "panicked"
               /\ ret = <<>>
               /\ phases = <<"for_command">>)
    /\ [](pc = "panicked" => HookFaulted \/ CommandFaulted)
    /\ [][pc = "panicked" => pc' = "panicked" /\ ret' = ret /\ journal' = journal]_vars

C11_Witness ==
    /\ pc = "panicked"
    /\ HookFaulted
    /\ fsm = "MyFsm"
    /\ hook_args[1] = hook_args[2]
    /\ journal # <<>>

(***************************************************************************)
(* A view onto a part.  trait Lens<T> can be implemented by a composite    *)
(* state for a part of it; for_command and for_event are generic in the    *)
(* view (S: Lens<T>) and are instantiated here for such a view.  Whole is  *)
(* two toggles side by side, viewed through its left one.                  *)
(***************************************************************************)
Whole == [left : State, right : State]

\* impl Lens<State> for Whole: fn extract(&self) -> &State
PartExtract(self) == self.left

\* impl Lens<State> for Whole: fn inject(&self, view: State) -> Whole
PartInject(self, part) == [self EXCEPT !.left = part]

\* for_command::<C, State> on a Whole
for_command_part(s, c, h) == execute(c, PartExtract(s), h)

\* for_event lifting the part it extracted instead of the part fire gave
ForEventPartInjectsOld(s, e) ==
    LET t == fire(e, PartExtract(s))
    IN  IF t.tag = "Next" THEN TransitionNext(PartInject(s, PartExtract(s)))
        ELSE TransitionSame

\* for_event::<E, State> on a Whole
for_event_part(s, e) ==
    LET t == fire(e, PartExtract(s))
    IN  IF t.tag = "Next" THEN TransitionNext(PartInject(s, t.state))
        ELSE TransitionSame

InitView ==
    /\ fsm \in FsmImpl
    /\ overflow_checks \in BOOLEAN
    /\ state \in Whole
    /\ handler \in [started : InitCount, stopped : InitCount,
                     transitioned_stopped_to_started : InitCount,
                     transitioned_started_to_stopped : InitCount]
    /\ pc = "idle"
    /\ command = None
    /\ entry = [state |-> state, handler |-> handler]
    /\ result = None
    /\ trans = Unset
    /\ hook_calls = 0
    /\ hook_args = <<>>
    /\ phases = <<>>
    /\ ret = <<>>
    /\ steps = 0
    /\ journal = <<>>
    /\ rstate = state
    /\ rpos = 0
    /\ rtrans = Unset
    /\ pin = None

\* the caller calls Self::for_command(&state, &c, &mut handler) with a command
\* on the part
ViewForCommand(c) ==
    /\ pc = "idle"
    /\ steps < MaxSteps
    /\ steps' = steps + 1
    /\ LET x == for_command_part(state, c, handler)
       IN  /\ handler' = x.h
           /\ result' = x.event
           /\ pc' = IF x.ok THEN "idle" ELSE "panicked"
    /\ command' = Some(c)
    /\ entry' = [state |-> state, handler |-> handler]
    /\ trans' = Unset
    /\ phases' = <<"for_command">>
    /\ UNCHANGED <<fsm, overflow_checks, state, hook_calls, hook_args, ret,
                   journal, rstate, rpos, rtrans, pin>>

\* the caller calls Self::for_event(&state, &e) with an event on the part and
\* takes the transition
ViewForEvent(e) ==
    /\ pc = "idle"
    /\ steps < MaxSteps
    /\ steps' = steps + 1
    /\ LET t == for_event_part(state, e)
       IN  /\ trans' = t
           /\ state' = Adopt(state, t)
    /\ command' = None
    /\ result' = Some(e)
    /\ entry' = [state |-> state, handler |-> handler]
    /\ phases' = <<"for_event">>
    /\ UNCHANGED <<fsm, overflow_checks, handler, pc, hook_calls, hook_args,
                   ret, journal, rstate, rpos, rtrans, pin>>

\* a caller with a composite state that calls for_command and for_event
\* through the view
NextView ==
    \/ \E c \in Command : ViewForCommand(c)
    \/ \E e \in Event : ViewForEvent(e)

SpecView == InitView /\ [][NextView]_vars

\* C12: for_event lifts the transition of the part through the view: when fire
\* on the extracted part gives Next(new_part) the result is
\* Next(inject(state, new_part)), when it gives Same the result is Same; with
\* the view of Whole onto its left toggle, the new state shows new_part on the
\* left and has the right toggle of the state for_event was given.
C12_ForEventLifts ==
    /\ \A s \in State, e \in Event :
          LET p == fire(e, extract(s))
          IN  for_event(s, e) = IF p.tag = "Next"
                                THEN TransitionNext(inject(s, p.state))
                                ELSE TransitionSame
    /\ phases = <<"for_event">>
          => LET p == fire(result[1], PartExtract(entry.state))
             IN  /\ p.tag = "Next"
                      => /\ trans = TransitionNext(PartInject(entry.state, p.state))
                         /\ PartExtract(trans.state) = p.state
                         /\ trans.state.right = entry.state.right
                 /\ p.tag # "Next" => trans = TransitionSame

C12_Witness ==
    /\ phases = <<"for_event">>
    /\ trans.tag = "Next"
    /\ trans.state.left # entry.state.left
    /\ trans.state.right = "State::Started"
    /\ trans.state.left = "State::Stopped"
    /\ steps = 2

(***************************************************************************)
(* What step leaves alone.                                                 *)
(***************************************************************************)
\* C13: step does not change the state it is lent: from its call to its
\* return (or panic) the caller's state is the value passed in; whenever the
\* hook is invoked its old-state argument is that value and its new-state
\* argument is the whole-state value carried by the Next step returns.
C13_StateLentNotChanged ==
    /\ [](pc # "idle" => state = entry.state)
    /\ [](hook_calls > 0
            => /\ hook_args[1] = entry.state
               /\ hook_args[2] \in State
               /\ trans = TransitionNext(hook_args[2]))
    /\ [][pc # "idle" /\ pc' # "idle" => state' = state]_vars
    /\ [][pc = "return" /\ pc' = "idle" /\ hook_calls > 0
            => ret'[2] = TransitionNext(hook_args[2])]_vars

C13_Witness ==
    /\ pc = "return"
    /\ hook_calls = 1
    /\ hook_args[2] # hook_args[1]
    /\ state = entry.state
    /\ trans.state # state
    /\ steps = 2

\* C14: for_event is pure: called by step or by the caller replaying, it
\* leaves the handler and the caller's state as they are and invokes no hook;
\* the handler changes only in step's call of for_command (command.execute)
\* and in its call of on_transition.
C14_ForEventPure ==
    /\ [][pc = "for_event" \/ rpos' # rpos
            => /\ handler' = handler
               /\ state' = state
               /\ hook_calls' = hook_calls
               /\ hook_args' = hook_args]_vars
    /\ [][handler' # handler => pc \in {"for_command", "on_transition"}]_vars
    /\ [](Len(phases) = 2
            => handler = for_command(entry.state, command[1], entry.handler).h)

C14_Witness ==
    /\ pc = "on_transition"
    /\ phases = <<"for_command", "for_event">>
    /\ handler # entry.handler
    /\ hook_calls = 0
    /\ rpos = 1

\* C15: with an Fsm that keeps the provided on_transition the hook does
\* nothing: it returns, and when the step returns, on a Next as on a Same, the
\* handler is exactly as command.execute left it.
C15_DefaultHookNoOp ==
    fsm = "DefaultFsm"
      => /\ ~HookFaulted
         /\ hook_calls > 0 => handler = hook_args[3]
         /\ pc = "return"
              => handler = execute(command[1], entry.state, entry.handler).h

C15_Witness ==
    /\ fsm = "DefaultFsm"
    /\ pc = "return"
    /\ hook_calls = 1
    /\ hook_args[1] = hook_args[2]
    /\ handler # entry.handler
    /\ handler.transitioned_stopped_to_started = U32Max

(***************************************************************************)
(* The toggle's events and hook.                                           *)
(***************************************************************************)
\* the events of the toggle, in both of its forms
TogglesEvent == ToggleEvent \cup AltEvent

\* C16: in the toggle an event that does not apply in the state is a no-op:
\* for_event(Started, Started) and for_event(Stopped, Stopped) are Same, so
\* the same event applied twice in a row, the caller taking each transition,
\* yields Same the second time; this is so for every pair of equal consecutive
\* events the steps returned and for their replay.
C16_InapplicableEventIsSame ==
    /\ for_event("State::Started", EventStarted) = TransitionSame
    /\ for_event("State::Stopped", EventStopped) = TransitionSame
    /\ for_event("State::Started", AltStarted) = TransitionSame
    /\ for_event("State::Stopped", AltStopped) = TransitionSame
    /\ \A s \in State, e \in TogglesEvent :
          for_event(Adopt(s, for_event(s, e)), e) = TransitionSame
    /\ \A i \in 2..Len(journal) :
          journal[i].event \in TogglesEvent /\ journal[i].event = journal[i - 1].event
            => /\ journal[i].trans = TransitionSame
               /\ rpos = i => rtrans = TransitionSame

C16_Witness ==
    /\ Len(journal) = 2
    /\ rpos = 2
    /\ journal[1].event = EventStarted
    /\ journal[2].event = EventStarted
    /\ journal[1].trans.tag = "Next"
    /\ rtrans = TransitionSame

\* the `_ => panic!("Unexpected transition")` arm of MyFsm's hook was taken
UnexpectedTransition ==
    /\ fsm = "MyFsm"
    /\ hook_calls > 0
    /\ ~(hook_args[1] = "State::Started" /\ hook_args[2] = "State::Stopped")
    /\ ~(hook_args[1] = "State::Stopped" /\ hook_args[2] = "State::Started")

\* C17: in the toggle the hook is called only with (Started, Stopped) or
\* (Stopped, Started): in a step whose event is one of the toggle's events the
\* hook's arguments are one of these two pairs, so the arm of the hook that
\* panics with "Unexpected transition" is never taken.
C17_HookOnlyOnToggle ==
    fsm = "MyFsm" /\ hook_calls > 0 /\ result # None /\ result[1] \in TogglesEvent
      => /\ <<hook_args[1], hook_args[2]>> \in
               {<<"State::Started", "State::Stopped">>,
                <<"State::Stopped", "State::Started">>}
         /\ ~UnexpectedTransition

C17_Witness ==
    /\ fsm = "MyFsm"
    /\ pc = "return"
    /\ hook_calls = 1
    /\ command = Some(CommandStop)
    /\ result = Some(EventStopped)
    /\ hook_args[1] = "State::Started"
    /\ hook_args[2] = "State::Stopped"

(***************************************************************************)
(* The toggle run as the tests run it: MyFsm, begun in Stopped with the    *)
(* four counters equal, stepped with Start and Stop only.  The counters    *)
(* are all 0 at the start of the tests; Start then Stop adds 1 to each of  *)
(* the four, so after 2^32 - 1 such rounds they are all u32::MAX, which is *)
(* the other start taken here.                                             *)
(***************************************************************************)
\* the commands of the toggle, in both of its forms
TogglesCommand == ToggleCommand \cup AltCommand

\* `let mut se = EffectHandlers { .. 0 }` and `&State::Stopped`, and the same
\* after whole rounds of Start and Stop
InitToggle ==
    /\ Init
    /\ fsm = "MyFsm"
    /\ state = "State::Stopped"
    /\ \E k \in InitCount :
          handler = [started |-> k, stopped |-> k,
                     transitioned_stopped_to_started |-> k,
                     transitioned_started_to_stopped |-> k]

\* MyFsm::step(&state, &Command::Start / &Command::Stop, &mut se), the
\* caller's state replaced on Next only (StepReturn)
NextToggle ==
    \/ \E c \in TogglesCommand : StepCall(c)
    \/ StepForCommand
    \/ StepForEvent
    \/ StepOnTransition
    \/ StepReturn

SpecToggle == InitToggle /\ [][NextToggle]_vars

\* the claim with the difference of the counters taken as integers
C18_ToggleCountsExact ==
    pc = "idle"
      => /\ handler.started = handler.transitioned_stopped_to_started
         /\ handler.stopped = handler.transitioned_started_to_stopped
         /\ \/ handler.started = handler.stopped
            \/ IsSucc(handler.stopped, handler.started)
         /\ state = "State::Started" <=> IsSucc(handler.stopped, handler.started)

\* C18: in the toggle, between the Start/Stop steps of a run begun in Stopped
\* with the counters equal, the start count equals the stopped-to-started
\* hook counter, the stop count equals the started-to-stopped hook counter,
\* start count minus stop count is 0 or 1 modulo 2^32, and the state is
\* Started exactly when that difference is 1.
C18_ToggleCounts ==
    pc = "idle"
      => /\ handler.started = handler.transitioned_stopped_to_started
         /\ handler.stopped = handler.transitioned_started_to_stopped
         /\ \/ handler.started = handler.stopped
            \/ handler.started = WrappingInc(handler.stopped)
         /\ state = "State::Started"
               <=> handler.started = WrappingInc(handler.stopped)

C18_Witness ==
    /\ pc = "idle"
    /\ steps > 0
    /\ state = "State::Started"
    /\ handler.started = U32Zero
    /\ handler.stopped = U32Max
    /\ handler.transitioned_stopped_to_started = U32Zero

(***************************************************************************)
(* Effects are kept.                                                       *)
(***************************************************************************)
\* the handler as the command of the running step left it
CommandEffect == for_command(entry.state, command[1], entry.handler).h

\* C19: step does not roll back what command.execute did to the handler: when
\* the event fired Same the handler at step's return is the handler as the
\* command left it, when the hook panics the handler at the panic is the one
\* the command left (the one the hook was given), and returning to the caller
\* changes nothing of it.
C19_EffectsNotRolledBack ==
    /\ [](pc = "return" /\ trans = TransitionSame => handler = CommandEffect)
    /\ [](pc = "panicked" /\ hook_calls > 0
            => handler = hook_args[3] /\ handler = CommandEffect)
    /\ [][pc = "return" /\ pc' = "idle" => handler' = handler]_vars

C19_Witness ==
    /\ pc = "panicked"
    /\ hook_calls = 1
    /\ HookFaulted
    /\ handler = CommandEffect
    /\ handler # entry.handler

\* the command changed the handler, its event fired Same, step has returned
C19_WitnessSame ==
    /\ pc = "idle"
    /\ steps = 1
    /\ ret # <<>>
    /\ ret[1] # None
    /\ ret[2] = TransitionSame
    /\ handler.started = WrappingInc(U32Zero)

====
